---- MODULE Spec2Model ----
(***************************************************************************)
(* Model of src/scraper.py: the state store (_load_scraped_records,        *)
(* _append_scraped_record), the path builder (_slugify,                    *)
(* _build_transcript_path), the identifier extraction (_extract_video_id)  *)
(* and the run of scrape_panopto_folder, one action per step of the run.   *)
(*                                                                         *)
(* Strings are sequences of tokens.  A token is a chunk of characters:     *)
(*   "a" "b" "1" "untitled" "Untitled" "Session" "session" "transcript"    *)
(*                      alphanumeric words                                 *)
(*   "p1" "p2" "P1"     the first 8 hex digits of a UUID ("P1" is "p1" in  *)
(*                      upper case)                                        *)
(*   "r1" "r2"          the 27 characters xxxx-xxxx-xxxx-xxxxxxxxxxxx that *)
(*                      follow the first hyphen of a UUID                  *)
(*   " " "|" "-" "(" ")"  single non-alphanumeric characters               *)
(* so that a UUID is the three tokens <<p, "-", r>>.                       *)
(***************************************************************************)
EXTENDS Integers, Sequences, FiniteSets, TLC

\* Python's None (an absent string); no string of the model equals it.
NoneVal == <<"<None>">>

\* The empty string.
Empty == <<>>

\* Python truthiness of an Optional[str]: None and "" are falsy.
Truthy(s) == s # NoneVal /\ s # Empty

\* `x or ""`
OrEmpty(s) == IF s = NoneVal THEN Empty ELSE s

PrefixTok == {"p1", "p2", "P1"}
RestTok == {"r1", "r2"}

\* Characters outside [A-Za-z0-9].
NonAlnum == {" ", "|", "-", "(", ")"}

\* VIDEO_ID_PATTERN.fullmatch
IsUuid(s) == /\ s # NoneVal
             /\ Len(s) = 3
             /\ s[1] \in PrefixTok
             /\ s[2] = "-"
             /\ s[3] \in RestTok

\* str.lower, token by token.
LowerTok(t) ==
    CASE t = "P1" -> "p1"
      [] t = "Untitled" -> "untitled"
      [] t = "Session" -> "session"
      [] OTHER -> t

Lower(s) == [k \in 1..Len(s) |-> LowerTok(s[k])]

\* str.strip(): whitespace removed at both ends.
RECURSIVE LStrip(_)
LStrip(s) == IF s # <<>> /\ Head(s) = " " THEN LStrip(Tail(s)) ELSE s

RECURSIVE RStrip(_)
RStrip(s) ==
    IF s # <<>> /\ s[Len(s)] = " " THEN RStrip(SubSeq(s, 1, Len(s) - 1)) ELSE s

Strip(s) == RStrip(LStrip(s))

\* Index of the first "|" of s, 0 when there is none.
RECURSIVE FirstPipeFrom(_, _)
FirstPipeFrom(s, k) ==
    IF k > Len(s) THEN 0
    ELSE IF s[k] = "|" THEN k
    ELSE FirstPipeFrom(s, k + 1)

\* entry.split("|", 1): one part, or the text before and after the first "|".
SplitPipe(s) ==
    LET k == FirstPipeFrom(s, 1)
    IN  IF k = 0 THEN <<s>>
        ELSE <<SubSeq(s, 1, k - 1), SubSeq(s, k + 1, Len(s))>>

(***************************************************************************)
(* State store                                                             *)
(***************************************************************************)

EmptyRecords == [ids |-> {}, titles |-> {}]

\* The body of the loop of _load_scraped_records for one line of the file.
LoadLine(records, raw_line) ==
    LET entry == Strip(raw_line)
        parts == SplitPipe(entry)
        candidate == Strip(parts[1])
    IN  IF entry = Empty THEN records
        ELSE IF IsUuid(candidate)
        THEN [ids |-> records.ids \cup {Lower(candidate)},
              titles |-> IF Len(parts) > 1 /\ Strip(parts[2]) # Empty
                         THEN records.titles \cup {Strip(parts[2])}
                         ELSE records.titles]
        ELSE [ids |-> records.ids, titles |-> records.titles \cup {entry}]

RECURSIVE LoadLines(_, _)
LoadLines(records, file) ==
    IF file = <<>> THEN records
    ELSE LoadLines(LoadLine(records, Head(file)), Tail(file))

\* _load_scraped_records: a file that does not exist and an empty file are
\* both the empty sequence of lines.
LoadScrapedRecords(pathSet, file) ==
    IF ~pathSet \/ file = <<>> THEN EmptyRecords
    ELSE LoadLines(EmptyRecords, file)

\* _append_scraped_record, lines 69-73: the in-memory update.
AppendMemory(records, video_id, title) ==
    LET clean_title == Strip(title)
    IN  [ids |-> IF Truthy(video_id) THEN records.ids \cup {Lower(video_id)}
                 ELSE records.ids,
         titles |-> IF clean_title # Empty
                    THEN records.titles \cup {clean_title}
                    ELSE records.titles]

\* _append_scraped_record, lines 79-83: the line to append, None for none.
RecordLine(video_id, title) ==
    LET clean_title == Strip(title)
    IN  IF Truthy(video_id)
        THEN (IF clean_title # Empty THEN video_id \o <<"|">> \o clean_title
              ELSE video_id)
        ELSE IF clean_title # Empty THEN clean_title
        ELSE NoneVal

\* An append that opens the state file for writing instead of appending.
AppendFileTruncating(pathSet, file, video_id, title) ==
    LET line == RecordLine(video_id, title)
    IN  IF ~pathSet \/ ~Truthy(line) THEN file ELSE <<line>>

\* _append_scraped_record, lines 75-87: the file after the call.
AppendFile(pathSet, file, video_id, title) ==
    LET line == RecordLine(video_id, title)
    IN  IF ~pathSet \/ ~Truthy(line) THEN file ELSE Append(file, line)

(***************************************************************************)
(* Identifier extraction                                                   *)
(***************************************************************************)

\* A URL as urlparse and parse_qs see it: the first value of each of the
\* three query keys (None when the key is absent) and the last segment of
\* the path.  kind is "none" for a missing href and "empty" for "".
Url(id, objectId, contentID, seg) ==
    [kind |-> "url", id |-> id, objectId |-> objectId,
     contentID |-> contentID, seg |-> seg]

NoUrl == [kind |-> "none", id |-> NoneVal, objectId |-> NoneVal,
          contentID |-> NoneVal, seg |-> Empty]

EmptyUrl == [kind |-> "empty", id |-> NoneVal, objectId |-> NoneVal,
             contentID |-> NoneVal, seg |-> Empty]

\* `not url`
UrlFalsy(url) == url.kind # "url"

\* _extract_video_id
ExtractVideoId(url) ==
    IF UrlFalsy(url) THEN NoneVal
    ELSE IF Truthy(url.id) /\ IsUuid(url.id) THEN Lower(url.id)
    ELSE IF Truthy(url.objectId) /\ IsUuid(url.objectId) THEN Lower(url.objectId)
    ELSE IF Truthy(url.contentID) /\ IsUuid(url.contentID) THEN Lower(url.contentID)
    ELSE IF Truthy(url.seg) /\ IsUuid(url.seg) THEN Lower(url.seg)
    ELSE NoneVal

(***************************************************************************)
(* Path builder                                                            *)
(***************************************************************************)

\* Number of characters of a token.
CharLen(t) ==
    CASE t \in PrefixTok -> 8
      [] t \in RestTok -> 27
      [] t \in {"untitled", "Untitled"} -> 8
      [] t \in {"Session", "session"} -> 7
      [] t = "transcript" -> 10
      [] OTHER -> 1

\* The slug[:80] of _slugify.
SlugMax == 80

\* s[:n], in whole tokens.
RECURSIVE Truncate(_, _)
Truncate(s, n) ==
    IF s = <<>> \/ CharLen(Head(s)) > n THEN <<>>
    ELSE <<Head(s)>> \o Truncate(Tail(s), n - CharLen(Head(s)))

RECURSIVE DropNonAlnum(_)
DropNonAlnum(s) ==
    IF s # <<>> /\ Head(s) \in NonAlnum THEN DropNonAlnum(Tail(s)) ELSE s

\* re.sub(r"[^A-Za-z0-9]+", "-", text)
RECURSIVE SubNonAlnum(_)
SubNonAlnum(s) ==
    IF s = <<>> THEN <<>>
    ELSE IF Head(s) \in NonAlnum THEN <<"-">> \o SubNonAlnum(DropNonAlnum(s))
    ELSE <<Head(s)>> \o SubNonAlnum(Tail(s))

\* str.strip("-")
RECURSIVE StripHyphens(_)
StripHyphens(s) ==
    IF s # <<>> /\ Head(s) = "-" THEN StripHyphens(Tail(s))
    ELSE IF s # <<>> /\ s[Len(s)] = "-" THEN StripHyphens(SubSeq(s, 1, Len(s) - 1))
    ELSE s

\* _slugify
Slugify(text) ==
    LET slug == Truncate(StripHyphens(SubNonAlnum(text)), SlugMax)
    IN  IF slug = Empty THEN <<"transcript">> ELSE slug

\* str(counter)
NumTok == <<"1", "2", "3", "4", "5", "6", "7", "8", "9", "10", "11", "12",
            "13", "14", "15", "16">>

\* base.txt for counter 0, base-k.txt otherwise.
PathName(base, k) ==
    IF k = 0 THEN base \o <<".txt">> ELSE base \o <<"-", NumTok[k], ".txt">>

\* _build_transcript_path, lines 145-147.
PathBase(title, video_id) ==
    LET safe_title == Slugify(IF Truthy(title) THEN title
                              ELSE <<"untitled", "-", "session">>)
    IN  IF Truthy(video_id) THEN safe_title \o <<"-", video_id[1]>>
        ELSE safe_title

\* A probe that stops at the first candidate without looking at the directory.
ProbeBlind(names, base, k) == PathName(base, k)

\* _build_transcript_path, lines 148-153: the loop `while path.exists()`.
RECURSIVE Probe(_, _, _)
Probe(names, base, k) ==
    IF PathName(base, k) \in names THEN Probe(names, base, k + 1)
    ELSE PathName(base, k)

\* _build_transcript_path over a directory holding the files `names`.
BuildTranscriptPath(names, title, video_id) ==
    Probe(names, PathBase(title, video_id), 0)

(***************************************************************************)
(* Enumeration and filter stages of scrape_panopto_folder                  *)
(***************************************************************************)

\* A row of the video table: whether the title link and the title span are
\* found, the span's text, innerText and textContent, the link's text and
\* its href.
Row(hasLink, hasSpan, text, innerText, textContent, linkText, href) ==
    [hasLink |-> hasLink, hasSpan |-> hasSpan, text |-> text,
     innerText |-> innerText, textContent |-> textContent,
     linkText |-> linkText, href |-> href]

\* Lines 214-226: the title of a row.
RowTitle(row) ==
    LET t1 == IF row.hasSpan THEN Strip(row.text) ELSE Empty
        t2 == IF row.hasSpan /\ t1 = Empty THEN Strip(OrEmpty(row.innerText))
              ELSE t1
        t3 == IF row.hasSpan /\ t2 = Empty THEN Strip(OrEmpty(row.textContent))
              ELSE t2
    IN  IF t3 = Empty THEN Strip(row.linkText) ELSE t3

\* Line 236: the metadata of a row.
RowVideo(row) ==
    [title |-> RowTitle(row), url |-> row.href, id |-> ExtractVideoId(row.href)]

\* An enumeration that keeps every row that has a link.
RECURSIVE EnumerateNoDedup(_, _, _)
EnumerateNoDedup(rs, vs, seen_ids) ==
    IF rs = <<>> THEN vs
    ELSE IF ~Head(rs).hasLink THEN EnumerateNoDedup(Tail(rs), vs, seen_ids)
    ELSE EnumerateNoDedup(Tail(rs), Append(vs, RowVideo(Head(rs))), seen_ids)

\* Lines 205-236: the loop over video_rows, with the videos collected so far
\* and the identifiers seen in this pass.
RECURSIVE Enumerate(_, _, _)
Enumerate(rs, vs, seen_ids) ==
    IF rs = <<>> THEN vs
    ELSE LET row == Head(rs)
             video == RowVideo(row)
         IN  IF ~row.hasLink THEN Enumerate(Tail(rs), vs, seen_ids)
             ELSE IF Truthy(video.id) /\ video.id \in seen_ids
             THEN Enumerate(Tail(rs), vs, seen_ids)
             ELSE Enumerate(Tail(rs), Append(vs, video),
                            IF Truthy(video.id) THEN seen_ids \cup {video.id}
                            ELSE seen_ids)

\* Line 248: the title the filter stage compares and logs.
FilterTitle(video) ==
    IF Truthy(video.title) THEN video.title ELSE <<"(", "untitled", ")">>

\* Line 268: the title the scrape loop saves and records.
LoopTitle(video) ==
    IF Truthy(video.title) THEN video.title ELSE <<"Untitled", " ", "Session">>

\* A filter that forgets the URL test.
KeepNoUrlTest(video, records) ==
    /\ ~(Truthy(video.id) /\ video.id \in records.ids)
    /\ FilterTitle(video) \notin records.titles

\* Lines 247-258: whether the filter stage keeps a video.
Keep(video, records) ==
    /\ ~(Truthy(video.id) /\ video.id \in records.ids)
    /\ FilterTitle(video) \notin records.titles
    /\ ~UrlFalsy(video.url)

\* Lines 245-258: videos_to_scrape.
FilterVideos(vs, records) == SelectSeq(vs, LAMBDA v : Keep(v, records))

\* What a file of the output directory holds: a file that was there before
\* the first call ("old"), the transcript of a video written by a call
\* ("transcript"), or what a failed write left ("cut").
Content(state, video, call) ==
    [state |-> state, title |-> video.title, id |-> video.id, call |-> call]

OldContent == [state |-> "old", title |-> Empty, id |-> NoneVal, call |-> 0]

\* Path.write_text: opens the path for writing, replacing what is there.
WriteText(files, path, content) == (path :> content) @@ files

(***************************************************************************)
(* Inputs                                                                  *)
(***************************************************************************)

U1 == <<"p1", "-", "r1">>
U1Upper == <<"P1", "-", "r1">>
U2 == <<"p1", "-", "r2">>
U3 == <<"p2", "-", "r1">>

\* .../Viewer.aspx?id=U1, titled "a".
RowA1 == Row(TRUE, TRUE, <<"a">>, <<"a">>, <<"a">>, <<"a">>,
             Url(U1, NoneVal, NoneVal, <<"a">>))
\* ?objectId=U2, titled "a": the title and the identifier's first 8
\* characters of RowA1, another identifier.
RowA2 == Row(TRUE, TRUE, <<" ", "a">>, NoneVal, NoneVal, <<"b">>,
             Url(NoneVal, U2, NoneVal, <<"a">>))
\* No title anywhere and no identifier in the URL.
RowUntitled == Row(TRUE, FALSE, Empty, NoneVal, NoneVal, Empty,
                   Url(<<"a">>, NoneVal, <<"b">>, <<"a">>))
\* The identifier of RowA1 in upper case as the last path segment, the
\* title taken from innerText.
RowB1 == Row(TRUE, TRUE, <<" ">>, <<" ", "b", " ">>, NoneVal, Empty,
             Url(<<"a">>, NoneVal, NoneVal, U1Upper))
\* A row without the title link.
RowNoLink == Row(FALSE, TRUE, <<"a">>, NoneVal, NoneVal, Empty, EmptyUrl)
\* A link without href.
RowNoUrl == Row(TRUE, FALSE, Empty, NoneVal, NoneVal, <<"b", " ">>, NoUrl)
\* A title that has the shape of an identifier, no identifier in the URL.
RowUuidTitle == Row(TRUE, TRUE, Empty, NoneVal, U3, Empty,
                    Url(NoneVal, NoneVal, NoneVal, <<"a">>))
\* Titled "a", no identifier in the URL.
RowA == Row(TRUE, TRUE, <<"a">>, NoneVal, NoneVal, Empty,
            Url(NoneVal, NoneVal, <<"a">>, Empty))

RowSet == {RowA1, RowA2, RowUntitled, RowB1, RowNoLink, RowNoUrl,
           RowUuidTitle, RowA}

\* Longest video table.
MaxRows == 2

\* Number of runs over the same folder.
MaxRuns == 2

RECURSIVE SeqsUpTo(_, _)
SeqsUpTo(S, n) ==
    IF n = 0 THEN {<<>>}
    ELSE LET shorter == SeqsUpTo(S, n - 1)
         IN  shorter \cup {Append(s, x) : s \in shorter, x \in S}

\* State files earlier runs or the user left behind.
InitFiles ==
    { <<>>,
      << U1 \o <<"|", "a">> >>,
      << <<"(", "untitled", ")">> >>,
      << U1Upper, <<" ", "b", " ">> >> }

\* Output directories: empty, or holding a-p1.txt and a-p1-2.txt.
InitDirs ==
    { <<>>,
      (<<"a", "-", "p1", ".txt">> :> OldContent)
        @@ (<<"a", "-", "p1", "-", "2", ".txt">> :> OldContent) }

(***************************************************************************)
(* The run of scrape_panopto_folder                                        *)
(***************************************************************************)

VARIABLES
    runs,             \* number of calls of scrape_panopto_folder to make
    run,              \* number of calls of scrape_panopto_folder so far
    pc,               \* position of the current call
    rows,             \* the rows of the folder's video table
    statePathSet,     \* whether state_path is configured
    stateFile,        \* the lines of the state file
    fs,               \* the output directory: file name -> content
    sessionOpen,      \* the browser session exists and is not released
    quitCount,        \* calls of driver.quit in the current call
    escaped,          \* an exception left scrape_panopto_folder
    scraped_records,  \* scraped_records
    videos,           \* videos
    videos_to_scrape, \* videos_to_scrape
    idx,              \* position of the scrape loop in videos_to_scrape
    scraped_count,    \* scraped_count
    opened,           \* positions whose page driver.get was asked to open, in order
    written,          \* positions whose transcript file was written, in order
    timedOut,         \* positions whose transcript wait timed out
    listingFailed,    \* a listing wait timed out or no video was enumerated
    fileAtStart,      \* the state file when the current call began
    loadedRecords,    \* the records as loaded at line 204
    recordedBefore,   \* videos whose record earlier calls appended to the file
    recordedNow,      \* videos whose record this call appended to the file
    argId,            \* video_id of a direct call of _append_scraped_record
    argTitle          \* title of a direct call of _append_scraped_record

vars == <<runs, run, pc, rows, statePathSet, stateFile, fs, sessionOpen, quitCount,
          escaped, scraped_records, videos, videos_to_scrape, idx,
          scraped_count, opened, written, timedOut, listingFailed,
          fileAtStart, loadedRecords, recordedBefore, recordedNow, argId,
          argTitle>>

env == <<runs, rows, statePathSet, argId, argTitle>>
disk == <<stateFile, fs>>
session == <<sessionOpen, quitCount, escaped>>
listing == <<scraped_records, videos, videos_to_scrape, loadedRecords>>
loop == <<idx, scraped_count, opened, written, timedOut>>
ghost == <<listingFailed, fileAtStart, recordedBefore, recordedNow>>

\* Before the first call: a folder, a state path (or none, and then no state
\* file) and an output directory.
InitRun(rowChoices, fileChoices, dirChoices) ==
    /\ run = 0
    /\ pc = "idle"
    /\ rows \in SeqsUpTo(rowChoices, MaxRows)
    /\ statePathSet \in BOOLEAN
    /\ stateFile \in (IF statePathSet THEN fileChoices ELSE {<<>>})
    /\ argId = NoneVal
    /\ argTitle = Empty
    /\ fs \in dirChoices
    /\ sessionOpen = FALSE
    /\ quitCount = 0
    /\ escaped = FALSE
    /\ scraped_records = EmptyRecords
    /\ videos = <<>>
    /\ videos_to_scrape = <<>>
    /\ idx = 0
    /\ scraped_count = 0
    /\ opened = <<>>
    /\ written = <<>>
    /\ timedOut = {}
    /\ listingFailed = FALSE
    /\ fileAtStart = stateFile
    /\ loadedRecords = EmptyRecords
    /\ recordedBefore = {}
    /\ recordedNow = {}

\* Repeated calls over the same folder, state file and output directory.
Init == InitRun(RowSet, InitFiles, InitDirs) /\ runs = MaxRuns

\* One call.
InitOnce == InitRun(RowSet, InitFiles, InitDirs) /\ runs = 1

\* One call over the folders made of two videos, a row without link and a
\* link without href, with an empty output directory.
InitOnceFair ==
    InitRun({RowA1, RowA2, RowNoLink, RowNoUrl},
            {<<>>, << U1 \o <<"|", "a">> >>}, {<<>>}) /\ runs = 1

\* Lines 165-175: the call begins and the browser session is created.
StartRun ==
    /\ pc = "idle"
    /\ run < runs
    /\ run' = run + 1
    /\ pc' = "navigate"
    /\ sessionOpen' = TRUE
    /\ quitCount' = 0
    /\ escaped' = FALSE
    /\ scraped_records' = EmptyRecords
    /\ videos' = <<>>
    /\ videos_to_scrape' = <<>>
    /\ idx' = 0
    /\ scraped_count' = 0
    /\ opened' = <<>>
    /\ written' = <<>>
    /\ timedOut' = {}
    /\ listingFailed' = FALSE
    /\ fileAtStart' = stateFile
    /\ loadedRecords' = EmptyRecords
    /\ recordedBefore' = recordedBefore \cup recordedNow
    /\ recordedNow' = {}
    /\ UNCHANGED <<env, disk>>

\* Line 178: driver.get(folder_url) returns or raises.
Navigate ==
    /\ pc = "navigate"
    /\ pc' \in {"wait_container", "except"}
    /\ UNCHANGED <<run, env, disk, session, listing, loop, ghost>>

\* Lines 182-186: the wait for the container returns, times out or raises.
WaitContainer ==
    /\ pc = "wait_container"
    /\ \/ pc' \in {"wait_rows", "except"} /\ UNCHANGED listingFailed
       \/ pc' = "shot_container" /\ listingFailed' = TRUE
    /\ UNCHANGED <<run, env, disk, session, listing, loop, fileAtStart,
                   recordedBefore, recordedNow>>

\* Lines 187-189: the screenshot is taken and the call returns, or the
\* screenshot raises into the handler of line 302.
ContainerTimeout ==
    /\ pc = "shot_container"
    /\ pc' \in {"finally", "except"}
    /\ UNCHANGED <<run, env, disk, session, listing, loop, ghost>>

\* Lines 195-197: rows_loaded answers only with a non-empty list of rows.
WaitRows ==
    /\ pc = "wait_rows"
    /\ \/ rows # <<>> /\ pc' = "load" /\ UNCHANGED listingFailed
       \/ pc' = "except" /\ UNCHANGED listingFailed
       \/ pc' = "shot_rows" /\ listingFailed' = TRUE
    /\ UNCHANGED <<run, env, disk, session, listing, loop, fileAtStart,
                   recordedBefore, recordedNow>>

\* Lines 198-200: the screenshot is taken and the call returns, or the
\* screenshot raises into the handler of line 302.
RowsTimeout ==
    /\ pc = "shot_rows"
    /\ pc' \in {"finally", "except"}
    /\ UNCHANGED <<run, env, disk, session, listing, loop, ghost>>

\* Line 204: the state file is read, or reading it raises.
Load ==
    /\ pc = "load"
    /\ \/ /\ pc' = "enumerate"
          /\ scraped_records' = LoadScrapedRecords(statePathSet, stateFile)
          /\ loadedRecords' = scraped_records'
       \/ /\ statePathSet
          /\ pc' = "except"
          /\ UNCHANGED <<scraped_records, loadedRecords>>
    /\ UNCHANGED <<run, env, disk, session, videos, videos_to_scrape, loop,
                   ghost>>

\* Lines 205-238: the rows are collected, or reading a row raises.
EnumerateRows ==
    /\ pc = "enumerate"
    /\ \/ /\ videos' = Enumerate(rows, <<>>, {})
          /\ pc' = IF videos' = <<>> THEN "shot_empty" ELSE "filter"
          /\ listingFailed' = (videos' = <<>>)
       \/ /\ pc' = "except"
          /\ UNCHANGED <<videos, listingFailed>>
    /\ UNCHANGED <<run, env, disk, session, scraped_records, videos_to_scrape,
                   loadedRecords, loop, fileAtStart, recordedBefore,
                   recordedNow>>

\* Lines 239-241: the screenshot is taken and the call returns, or the
\* screenshot raises into the handler of line 302.
NoVideos ==
    /\ pc = "shot_empty"
    /\ pc' \in {"finally", "except"}
    /\ UNCHANGED <<run, env, disk, session, listing, loop, ghost>>

\* Lines 245-266: the work list; an empty one returns.
FilterStage ==
    /\ pc = "filter"
    /\ videos_to_scrape' = FilterVideos(videos, scraped_records)
    /\ pc' = IF videos_to_scrape' = <<>> THEN "finally" ELSE "open"
    /\ idx' = 1
    /\ UNCHANGED <<run, env, disk, session, scraped_records, videos,
                   loadedRecords, scraped_count, opened, written, timedOut,
                   ghost>>

\* `continue`, or the end of the last iteration of the loop of line 267.
NextVideo ==
    /\ idx' = idx + 1
    /\ pc' = IF idx < Len(videos_to_scrape) THEN "open" ELSE "done"

\* Line 271: driver.get(video["url"]) returns or raises.
OpenVideo ==
    /\ pc = "open"
    /\ opened' = Append(opened, idx)
    /\ pc' \in {"wait_transcript", "except"}
    /\ UNCHANGED <<run, env, disk, session, listing, idx, scraped_count,
                   written, timedOut, ghost>>

\* Lines 273-280: both waits return, one times out, or one raises.
WaitTranscript ==
    /\ pc = "wait_transcript"
    /\ \/ pc' \in {"extract", "except"} /\ UNCHANGED timedOut
       \/ pc' = "shot_video" /\ timedOut' = timedOut \cup {idx}
    /\ UNCHANGED <<run, env, disk, session, listing, idx, scraped_count,
                   opened, written, ghost>>

\* Lines 281-283: the screenshot is taken and the loop continues, or the
\* screenshot raises.
VideoTimeout ==
    /\ pc = "shot_video"
    /\ \/ NextVideo
       \/ pc' = "except" /\ UNCHANGED idx
    /\ UNCHANGED <<run, env, disk, session, listing, scraped_count, opened,
                   written, timedOut, ghost>>

\* Lines 285-292: the transcript lines are read, or reading an element raises.
Extract ==
    /\ pc = "extract"
    /\ pc' \in {"write", "except"}
    /\ UNCHANGED <<run, env, disk, session, listing, loop, ghost>>

\* Lines 293-294: the path is built and the transcript written; or the
\* directory cannot be made or the file not opened; or the file is opened
\* and writing it fails.
WriteTranscript ==
    /\ pc = "write"
    /\ LET video == videos_to_scrape[idx]
           path == BuildTranscriptPath(DOMAIN fs, LoopTitle(video), video.id)
       IN  \/ /\ fs' = WriteText(fs, path, Content("transcript", video, run))
              /\ written' = Append(written, idx)
              /\ pc' = "append"
           \/ /\ fs' = fs
              /\ pc' = "except"
              /\ UNCHANGED written
           \/ /\ fs' = WriteText(fs, path, Content("cut", video, run))
              /\ pc' = "except"
              /\ UNCHANGED written
    /\ UNCHANGED <<run, env, stateFile, session, listing, idx, scraped_count,
                   opened, timedOut, ghost>>

\* Lines 297-298: the record is added in memory and appended to the state
\* file; or the append raises after the in-memory update.
AppendRecord ==
    /\ pc = "append"
    /\ LET video == videos_to_scrape[idx]
       IN  /\ scraped_records' =
                 AppendMemory(scraped_records, video.id, LoopTitle(video))
           /\ \/ /\ stateFile' = AppendFile(statePathSet, stateFile, video.id,
                                            LoopTitle(video))
                 /\ scraped_count' = scraped_count + 1
                 /\ recordedNow' = IF statePathSet THEN recordedNow \cup {video}
                                   ELSE recordedNow
                 /\ NextVideo
              \/ /\ statePathSet
                 /\ pc' = "except"
                 /\ UNCHANGED <<stateFile, scraped_count, recordedNow, idx>>
    /\ UNCHANGED <<run, env, fs, session, videos, videos_to_scrape,
                   loadedRecords, opened, written, timedOut, listingFailed,
                   fileAtStart, recordedBefore>>

\* Line 300.
Finish ==
    /\ pc = "done"
    /\ pc' = "finally"
    /\ UNCHANGED <<run, env, disk, session, listing, loop, ghost>>

\* Lines 302-304: the handler logs and takes a screenshot; a screenshot that
\* raises leaves the call after the finally clause.
Handler ==
    /\ pc = "except"
    /\ pc' = "finally"
    /\ escaped' \in {FALSE, TRUE}
    /\ UNCHANGED <<run, env, disk, sessionOpen, quitCount, listing, loop,
                   ghost>>

\* A return that releases the session only when nothing was raised.
ReleaseUnlessRaised ==
    /\ pc = "finally"
    /\ pc' = "idle"
    /\ sessionOpen' = escaped
    /\ quitCount' = IF escaped THEN quitCount ELSE quitCount + 1
    /\ UNCHANGED <<run, env, disk, escaped, listing, loop, ghost>>

\* Lines 305-306: driver.quit(), which may itself raise.
Release ==
    /\ pc = "finally"
    /\ pc' = "idle"
    /\ sessionOpen' = FALSE
    /\ quitCount' = quitCount + 1
    /\ escaped' \in {escaped, TRUE}
    /\ UNCHANGED <<run, env, disk, listing, loop, ghost>>

Next ==
    \/ StartRun
    \/ Navigate
    \/ WaitContainer
    \/ ContainerTimeout
    \/ WaitRows
    \/ RowsTimeout
    \/ Load
    \/ EnumerateRows
    \/ NoVideos
    \/ FilterStage
    \/ OpenVideo
    \/ WaitTranscript
    \/ VideoTimeout
    \/ Extract
    \/ WriteTranscript
    \/ AppendRecord
    \/ Finish
    \/ Handler
    \/ Release

Spec == Init /\ [][Next]_vars

\* One call of scrape_panopto_folder.
SpecOnce == InitOnce /\ [][Next]_vars

\* One call; the code is sequential and every wait is bounded by its timeout,
\* so a call never stops between two of its steps.
SpecOnceFair == InitOnceFair /\ [][Next]_vars /\ WF_vars(Next)

(***************************************************************************)
(* The state store on its own: one record appended to a state file, and    *)
(* the file read back.                                                     *)
(***************************************************************************)

StoreIds == {NoneVal, U1, U3}

StoreTitles ==
    { Empty, <<"a">>, <<" ", "a", " ">>, <<"a", "|", "b">>, U3,
      U3 \o <<"|", "a">>, <<"Untitled", " ", "Session">>,
      <<"(", "untitled", ")">> }

InitStore ==
    /\ runs = 0
    /\ run = 0
    /\ pc = "store_call"
    /\ rows = <<>>
    /\ statePathSet = TRUE
    /\ stateFile \in InitFiles
    /\ fs = <<>>
    /\ sessionOpen = FALSE
    /\ quitCount = 0
    /\ escaped = FALSE
    /\ scraped_records = LoadScrapedRecords(statePathSet, stateFile)
    /\ videos = <<>>
    /\ videos_to_scrape = <<>>
    /\ idx = 0
    /\ scraped_count = 0
    /\ opened = <<>>
    /\ written = <<>>
    /\ timedOut = {}
    /\ listingFailed = FALSE
    /\ fileAtStart = stateFile
    /\ loadedRecords = scraped_records
    /\ recordedBefore = {}
    /\ recordedNow = {}
    /\ argId \in StoreIds
    /\ argTitle \in StoreTitles

\* _append_scraped_record(scraped_records, state_path, argId, argTitle)
StoreAppend ==
    /\ pc = "store_call"
    /\ pc' = "store_appended"
    /\ scraped_records' = AppendMemory(scraped_records, argId, argTitle)
    /\ stateFile' = AppendFile(statePathSet, stateFile, argId, argTitle)
    /\ UNCHANGED <<run, env, fs, session, videos, videos_to_scrape,
                   loadedRecords, loop, ghost>>

\* _load_scraped_records(state_path) after the append.
StoreReload ==
    /\ pc = "store_appended"
    /\ pc' = "store_loaded"
    /\ loadedRecords' = LoadScrapedRecords(statePathSet, stateFile)
    /\ UNCHANGED <<run, env, disk, session, scraped_records, videos,
                   videos_to_scrape, loop, ghost>>

NextStore == StoreAppend \/ StoreReload

SpecStore == InitStore /\ [][NextStore]_vars

(***************************************************************************)
(* Properties                                                              *)
(***************************************************************************)

Range(s) == {s[k] : k \in 1..Len(s)}

\* The filter stage of the current call has run.
Filtered == idx >= 1

\* The call has returned (or raised) and the next has not begun.
Returned == pc = "idle" /\ run >= 1

\* The lines the current call appended to the state file.
AppendedLines == SubSeq(stateFile, Len(fileAtStart) + 1, Len(stateFile))

\* The positions of the work list whose scrape is complete, in order.
Completed == SelectSeq(written, LAMBDA j : j < idx)

Placeholder == <<"(", "untitled", ")">>

UntitledSession == <<"Untitled", " ", "Session">>

\* The work list the filter stage is said to build: no identifier among the
\* loaded ones, `title` not a loaded title, and a URL.
Selected(title(_)) ==
    SelectSeq(videos,
              LAMBDA v : /\ (v.id = NoneVal \/ v.id \notin loadedRecords.ids)
                         /\ title(v) \notin loadedRecords.titles
                         /\ v.url.kind = "url")

RawTitle(v) == v.title

TitleOrPlaceholder(v) == IF v.title = Empty THEN Placeholder ELSE v.title

\* C1 as stated: the work list is exactly the enumerated videos whose
\* identifier is not in the loaded seenIds, whose title is not in the loaded
\* seenTitles and which have a URL; no other video is opened.
C1_WorkListByTitle ==
    Filtered =>
        /\ videos_to_scrape = Selected(RawTitle)
        /\ Range(opened) \subseteq 1..Len(videos_to_scrape)

\* C1 amended: the title compared with seenTitles is the video's title, or
\* the placeholder "(untitled)" when the title is empty; the rest as stated.
C1_WorkListByTitleOrPlaceholder ==
    Filtered =>
        /\ videos_to_scrape = Selected(TitleOrPlaceholder)
        /\ Range(opened) \subseteq 1..Len(videos_to_scrape)

\* An untitled video skipped because "(untitled)" is a loaded title, next to
\* a video that is kept and opened.
C1_Witness ==
    /\ Filtered
    /\ Placeholder \in loadedRecords.titles
    /\ \E k \in 1..Len(videos) : videos[k].title = Empty
    /\ Len(videos_to_scrape) = 1
    /\ Len(videos) = 2
    /\ opened = <<1>>

\* C2: a video a call scraped and recorded in the state file is not in the
\* work list of a later call that loads the same file and enumerates the
\* same rows.
C2_RecordedVideoSkippedOnRerun ==
    (statePathSet /\ run >= 2 /\ Filtered) =>
        \A j \in 1..Len(videos_to_scrape) :
            videos_to_scrape[j] \notin recordedBefore

\* C3: when the call ends after its scrape loop began, every video of the
\* work list was opened.
C3_EveryWorkVideoOpened ==
    (Returned /\ Filtered) => Range(opened) = 1..Len(videos_to_scrape)

\* C4: driver.quit is called at most once per call; a call that holds a
\* session eventually releases it, having called driver.quit once; and after
\* the release the call takes no further step.
C4_SessionReleasedOnce ==
    /\ [](quitCount <= 1)
    /\ [](Returned => quitCount = 1 /\ ~sessionOpen)
    /\ [](~sessionOpen => pc = "idle")
    /\ (sessionOpen ~> (~sessionOpen /\ quitCount = 1))

\* The session released after a listing timeout whose screenshot raised and
\* whose handler's screenshot raised too.
C4_Witness == Returned /\ listingFailed /\ escaped /\ quitCount = 1

\* The line of a completed video: "id|title" or "title", the title being
\* "Untitled Session" for an untitled video.
ExpectedLine(v) ==
    LET t == IF v.title = Empty THEN UntitledSession ELSE v.title
    IN  IF v.id = NoneVal THEN t ELSE v.id \o <<"|">> \o t

\* C5: with a state file configured, the file is its content at the start of
\* the call followed by one line per completed video, in completion order;
\* every completed video's transcript was written before.
C5_StateFileIsAppendOnlyLog ==
    (statePathSet /\ run >= 1) =>
        /\ stateFile = fileAtStart \o
               [k \in 1..Len(Completed) |->
                    ExpectedLine(videos_to_scrape[Completed[k]])]
        /\ scraped_count = Len(Completed)

\* Two videos completed after a state file that was not empty.
C5_Witness ==
    /\ statePathSet
    /\ fileAtStart # <<>>
    /\ scraped_count = 2
    /\ Len(stateFile) = Len(fileAtStart) + 2

\* C6: a video whose transcript wait timed out has no transcript file, is
\* not counted, and the loop goes on to the next video.
C6_TimeoutSkipsOnlyThatVideo ==
    \A j \in timedOut :
        /\ j \notin Range(written)
        /\ scraped_count + Cardinality(timedOut) <= Len(videos_to_scrape)
        /\ (pc = "shot_video" /\ idx = j) \/ idx > j

\* C7: after a listing timeout or an empty enumeration no video is opened,
\* no transcript written, the state file and the record sets are as loaded,
\* and no exception leaves the call.
C7_ListingFailureEndsCleanly ==
    listingFailed =>
        /\ opened = <<>>
        /\ written = <<>>
        /\ videos_to_scrape = <<>>
        /\ stateFile = fileAtStart
        /\ scraped_records = loadedRecords
        /\ ~escaped

\* The path the write step is about to use.
NextPath ==
    BuildTranscriptPath(DOMAIN fs, LoopTitle(videos_to_scrape[idx]),
                        videos_to_scrape[idx].id)

\* C8: the path built for a transcript is base.txt if no such file exists
\* and otherwise base-k.txt for the least k >= 1 that is free; and no step
\* removes a file of the output directory or changes its content.
C8_NoTranscriptOverwritten ==
    /\ [](pc = "write" =>
            LET v == videos_to_scrape[idx]
                base == PathBase(LoopTitle(v), v.id)
            IN  /\ NextPath \notin DOMAIN fs
                /\ \E k \in 0..Cardinality(DOMAIN fs) :
                      /\ NextPath = PathName(base, k)
                      /\ \A m \in 0..(k - 1) : PathName(base, m) \in DOMAIN fs)
    /\ [][\A n \in DOMAIN fs : n \in DOMAIN fs' /\ fs'[n] = fs[n]]_vars

\* Two videos with the title and identifier prefix of the files a-p1.txt and
\* a-p1-2.txt already there: written to a-p1-1.txt and a-p1-3.txt.
C8_Witness ==
    /\ Len(written) = 2
    /\ {<<"a", "-", "p1", ".txt">>, <<"a", "-", "p1", "-", "1", ".txt">>,
        <<"a", "-", "p1", "-", "2", ".txt">>,
        <<"a", "-", "p1", "-", "3", ".txt">>} \subseteq DOMAIN fs
    /\ fs[<<"a", "-", "p1", ".txt">>] = OldContent
    /\ fs[<<"a", "-", "p1", "-", "2", ".txt">>] = OldContent

\* C9: after a record (an optional identifier and a title, one of them
\* present) is appended and the file read back, seenIds holds the identifier,
\* seenTitles holds the title, and nothing is there that was neither in the
\* file before nor in the record.
C9_AppendThenLoadRoundTrip ==
    (pc = "store_loaded" /\ (argId # NoneVal \/ Strip(argTitle) # Empty)) =>
        LET before == LoadScrapedRecords(TRUE, fileAtStart)
        IN  /\ argId # NoneVal => argId \in loadedRecords.ids
            /\ Strip(argTitle) # Empty => Strip(argTitle) \in loadedRecords.titles
            /\ loadedRecords.ids \subseteq before.ids \cup ({argId} \ {NoneVal})
            /\ loadedRecords.titles \subseteq before.titles \cup {Strip(argTitle)}

\* The first row, in row order, that has a link and the identifier id.
FirstRowWith(id) ==
    LET hits == {r \in 1..Len(rows) :
                    rows[r].hasLink /\ ExtractVideoId(rows[r].href) = id}
    IN  CHOOSE r \in hits : \A q \in hits : r <= q

\* The identifiers in a sequence of positions of the work list.
IdsOnce(positions) ==
    \A a, b \in 1..Len(positions) :
        (a < b /\ videos_to_scrape[positions[a]].id # NoneVal) =>
            videos_to_scrape[positions[a]].id # videos_to_scrape[positions[b]].id

\* The identifier of an "id|title" line of the state file, None for another
\* line (the scrape loop records no video without a title).
LineId(line) ==
    IF Len(line) > 4 /\ IsUuid(SubSeq(line, 1, 3)) /\ line[4] = "|"
    THEN SubSeq(line, 1, 3)
    ELSE NoneVal

\* C10: the enumerated list holds no identifier twice, each identifier with
\* the metadata of its first row; and within a call no identifier is opened,
\* written or recorded twice.
C10_NoIdentifierTwice ==
    /\ \A a, b \in 1..Len(videos) :
          (a < b /\ videos[a].id # NoneVal) => videos[a].id # videos[b].id
    /\ \A a \in 1..Len(videos) :
          videos[a].id # NoneVal =>
              videos[a] = RowVideo(rows[FirstRowWith(videos[a].id)])
    /\ IdsOnce(opened)
    /\ IdsOnce(written)
    /\ \A a, b \in 1..Len(AppendedLines) :
          (a < b /\ LineId(AppendedLines[a]) # NoneVal) =>
              LineId(AppendedLines[a]) # LineId(AppendedLines[b])

\* Two rows with one identifier, the first one scraped and recorded.
C10_Witness ==
    /\ Len(rows) = 2
    /\ rows[1].hasLink /\ rows[2].hasLink
    /\ rows[1] # rows[2]
    /\ ExtractVideoId(rows[1].href) # NoneVal
    /\ ExtractVideoId(rows[1].href) = ExtractVideoId(rows[2].href)
    /\ Len(videos) = 1
    /\ scraped_count = 1
    /\ Len(AppendedLines) = 1

====
